---------------------------- MODULE Spec2Model ----------------------------
(***************************************************************************)
(* Verification model of website_monitor.py (class WebsiteMonitor): the    *)
(* change-detection pipeline (normalize_content, get_clean_text,           *)
(* calculate_hash, find_content_differences), check_website and the        *)
(* run_check cycle that saves the snapshot store and sends notifications.  *)
(*                                                                         *)
(* A Python str is a sequence of one-character strings.  Markup is a flat  *)
(* sequence of elements; BeautifulSoup's parse is the inverse of the       *)
(* serialisation str(soup) over the documents of the model.                *)
(***************************************************************************)
EXTENDS Integers, Sequences, FiniteSets, TLC

VARIABLES
    website_data,   \* self.website_data: url -> snapshot dict
    data_file,      \* contents of website_data.json as last written
    clock,          \* wall clock read by datetime.now()
    pc,             \* position of run_continuous / run_check
    idx,            \* index of the site the loop of run_check is at
    changes,        \* the list `changes` of run_check
    nidx,           \* index of the change the notification loop is at
    outbox,         \* send_email calls made in this cycle, with their outcome
    last_call,      \* the latest check_website call: url, content, result
    last_outcome,   \* url -> content of the latest fetch, None if it failed
    last_fetched,   \* url -> content of the latest fetch that succeeded
    first_content,  \* url -> content of the first successful fetch
    small_steps,    \* url -> every fetch so far stayed within min_change of the one before
    had_event,      \* url -> some check_website call returned a change_info
    applied,        \* whether the function has been applied to its arguments
    old_text,       \* find_content_differences: argument old_text
    new_sentence,   \* the sentence appended to old_text to form new_text
    diffs,          \* find_content_differences: its result
    markup,         \* get_clean_text: argument content
    clean_out       \* get_clean_text: its result

vars == <<website_data, data_file, clock, pc, idx, changes, nidx, outbox,
          last_call, last_outcome, last_fetched, first_content, small_steps,
          had_event, applied, old_text, new_sentence, diffs, markup, clean_out>>

orchestrator_vars == <<website_data, data_file, clock, pc, idx, changes, nidx,
                       outbox, last_call, last_outcome, last_fetched,
                       first_content, small_steps, had_event>>

pure_vars == <<applied, old_text, new_sentence, diffs, markup, clean_out>>

\* None where a str is expected: no str equals it.
None == <<"None">>

\* None where a dict is expected.
NoDict == [none |-> TRUE]

-----------------------------------------------------------------------------
(* Characters and the str methods the code uses.                           *)

UpperCase == <<"A", "B", "C", "D", "E", "F", "G", "H", "I", "J", "K", "L", "M", "N", "O", "P", "Q", "R", "S", "T", "U", "V", "W", "X", "Y", "Z">>

LowerCase == <<"a", "b", "c", "d", "e", "f", "g", "h", "i", "j", "k", "l", "m", "n", "o", "p", "q", "r", "s", "t", "u", "v", "w", "x", "y", "z">>

\* The printable ASCII characters in code-point order: 32 (space) to 95, and
\* 97 to 126.
AsciiTo95 == <<" ", "!", "\"", "#", "$", "%", "&", "'", "(", ")", "*", "+", ",", "-", ".", "/", "0", "1", "2", "3", "4", "5", "6", "7", "8", "9", ":", ";", "<", "=", ">", "?", "@", "A", "B", "C", "D", "E", "F", "G", "H", "I", "J", "K", "L", "M", "N", "O", "P", "Q", "R", "S", "T", "U", "V", "W", "X", "Y", "Z", "[", "\\", "]", "^", "_">>

AsciiFrom97 == <<"a", "b", "c", "d", "e", "f", "g", "h", "i", "j", "k", "l", "m", "n", "o", "p", "q", "r", "s", "t", "u", "v", "w", "x", "y", "z", "{", "|", "}", "~">>

Range(s) == {s[i] : i \in DOMAIN s}

UpperSet == Range(UpperCase)

\* \s of the re module, over the characters of the model.
IsSpace(c) == c \in {" ", "\t", "\n"}

\* str.lower() of one character.
ToLower(c) ==
    IF c \in UpperSet
    THEN LowerCase[CHOOSE i \in DOMAIN UpperCase : UpperCase[i] = c]
    ELSE c

\* The code point of a character (one UTF-8 byte for ASCII).
Ord(c) ==
    CASE c = "\t" -> 9
      [] c = "\n" -> 10
      [] \E i \in DOMAIN AsciiTo95 : AsciiTo95[i] = c ->
            31 + (CHOOSE i \in DOMAIN AsciiTo95 : AsciiTo95[i] = c)
      [] OTHER -> 96 + (CHOOSE i \in DOMAIN AsciiFrom97 : AsciiFrom97[i] = c)

SetMin(S) == CHOOSE m \in S : \A k \in S : m <= k

SetMax(S) == CHOOSE m \in S : \A k \in S : k <= m

\* str.strip(): the text between the first and the last non-space character.
Strip(s) ==
    LET I == {i \in DOMAIN s : ~IsSpace(s[i])}
    IN  IF I = {} THEN <<>> ELSE SubSeq(s, SetMin(I), SetMax(I))

\* s[:n]
Prefix(s, n) == SubSeq(s, 1, IF Len(s) < n THEN Len(s) ELSE n)

RECURSIVE CollapseRange(_, _, _)
CollapseRange(s, lo, hi) ==
    IF lo > hi THEN <<>>
    ELSE IF lo = hi
    THEN IF ~IsSpace(s[lo]) THEN <<s[lo]>>
         ELSE IF lo > 1 /\ IsSpace(s[lo - 1]) THEN <<>> ELSE <<" ">>
    ELSE LET mid == (lo + hi) \div 2
         IN  CollapseRange(s, lo, mid) \o CollapseRange(s, mid + 1, hi)

\* re.sub(r'\s+', ' ', s): every run of whitespace becomes one space.
CollapseSpaces(s) == CollapseRange(s, 1, Len(s))

RECURSIVE JoinRange(_, _, _, _)
JoinRange(parts, sep, lo, hi) ==
    IF lo > hi THEN <<>>
    ELSE IF lo = hi THEN parts[lo]
    ELSE LET mid == (lo + hi) \div 2
         IN  JoinRange(parts, sep, lo, mid) \o sep \o JoinRange(parts, sep, mid + 1, hi)

\* sep.join(parts)
Join(parts, sep) == JoinRange(parts, sep, 1, Len(parts))

\* p in s, for str
Contains(s, p) ==
    \E i \in 1..(Len(s) - Len(p) + 1) : SubSeq(s, i, i + Len(p) - 1) = p

LowerStr(s) == [i \in DOMAIN s |-> ToLower(s[i])]

-----------------------------------------------------------------------------
(* find_content_differences                                                *)

\* The length a sentence must exceed to be kept by split_sentences.
MinSentenceLen == 30

\* The length above which a reported sentence is cut.
MaxShownLen == 350

\* The number of sentences reported at most.
MaxDiffs == 10

Terminal == {".", "!", "?"}

\* The last index of the run of whitespace that starts at i.
RunEnd(t, i) ==
    SetMin({j \in i..Len(t) : j = Len(t) \/ ~IsSpace(t[j + 1])})

\* Where r'(?<=[.!?])\s+(?=[A-Z])' matches: a whole run of whitespace that
\* follows a terminal mark and is followed by an upper-case letter.
SplitStarts(t) ==
    {i \in 2..Len(t) :
        /\ t[i - 1] \in Terminal
        /\ IsSpace(t[i])
        /\ RunEnd(t, i) < Len(t)
        /\ t[RunEnd(t, i) + 1] \in UpperSet}

RECURSIVE SplitFrom(_, _, _)
SplitFrom(t, from, starts) ==
    IF starts = {} THEN <<SubSeq(t, from, Len(t))>>
    ELSE LET i == SetMin(starts)
         IN  <<SubSeq(t, from, i - 1)>> \o SplitFrom(t, RunEnd(t, i) + 1, starts \ {i})

\* re.split(r'(?<=[.!?])\s+(?=[A-Z])', t)
ReSplit(t) == SplitFrom(t, 1, SplitStarts(t))

split_sentences(t) ==
    LET parts == ReSplit(t)
    IN  SelectSeq([i \in DOMAIN parts |-> Strip(parts[i])],
                  LAMBDA s : Len(s) > MinSentenceLen)

\* sorted(added, key=len, reverse=True): stable, longest first.
RECURSIVE SortByLenDesc(_)
SortByLenDesc(seq) ==
    IF seq = <<>> THEN <<>>
    ELSE LET rest == SortByLenDesc(SubSeq(seq, 1, Len(seq) - 1))
             x == seq[Len(seq)]
             k == Cardinality({i \in DOMAIN rest : Len(rest[i]) >= Len(x)})
         IN  SubSeq(rest, 1, k) \o <<x>> \o SubSeq(rest, k + 1, Len(rest))

Ellipsis == <<".", ".", ".">>

\* FormatAdded cutting at "<" for "<=": a sentence of exactly MaxShownLen
\* characters is cut too.
FormatAddedCutsAtLimit(s) ==
    LET disp == IF Len(s) < MaxShownLen THEN s ELSE Prefix(s, MaxShownLen) \o Ellipsis
    IN  <<"A", "d", "d", "e", "d", ":", " ", "\"">> \o disp \o <<"\"">>

\* f"Added: \"{disp}\""
FormatAdded(s) ==
    LET disp == IF Len(s) <= MaxShownLen THEN s ELSE Prefix(s, MaxShownLen) \o Ellipsis
    IN  <<"A", "d", "d", "e", "d", ":", " ", "\"">> \o disp \o <<"\"">>

MinorNewText == <<"M", "i", "n", "o", "r", " ", "n", "e", "w", " ", "t", "e", "x", "t", " ", "a", "d", "d", "e", "d">>

find_content_differences(old, new) ==
    LET old_set == Range(split_sentences(old))
        added == SelectSeq(split_sentences(new), LAMBDA s : s \notin old_set)
        top == Prefix(SortByLenDesc(added), MaxDiffs)
        out == [i \in DOMAIN top |-> FormatAdded(top[i])]
    IN  IF out = <<>> THEN <<MinorNewText>> ELSE out

-----------------------------------------------------------------------------
(* Markup: BeautifulSoup documents and their serialisation.                *)

\* A document is a sequence of nodes.  A node is an element
\* [tag, class, id, text] (attributes and text may be empty) or a comment,
\* whose tag is CommentTag.
CommentTag == <<"!", "-", "-">>

VoidTags == {<<"m", "e", "t", "a">>, <<"l", "i", "n", "k">>, <<"i", "m", "g">>}

Node(tag, class, id, text) == [tag |-> tag, class |-> class, id |-> id, text |-> text]

RenderAttrs(e) ==
    (IF e.class = <<>> THEN <<>> ELSE <<" ", "c", "l", "a", "s", "s", "=", "\"">> \o e.class \o <<"\"">>)
    \o (IF e.id = <<>> THEN <<>> ELSE <<" ", "i", "d", "=", "\"">> \o e.id \o <<"\"">>)

\* str(tag)
RenderNode(e) ==
    IF e.tag = CommentTag THEN <<"<", "!", "-", "-">> \o e.text \o <<"-", "-", ">">>
    ELSE IF e.tag \in VoidTags THEN <<"<">> \o e.tag \o RenderAttrs(e) \o <<"/", ">">>
    ELSE <<"<">> \o e.tag \o RenderAttrs(e) \o <<">">> \o e.text \o <<"<", "/">> \o e.tag \o <<">">>

\* str(soup)
RenderDoc(doc) == Join([i \in DOMAIN doc |-> RenderNode(doc[i])], <<>>)

-----------------------------------------------------------------------------
(* normalize_content                                                       *)

ScriptLikeTags == {<<"s", "c", "r", "i", "p", "t">>, <<"s", "t", "y", "l", "e">>, <<"n", "o", "s", "c", "r", "i", "p", "t">>, <<"s", "v", "g">>, <<"m", "e", "t", "a">>, <<"l", "i", "n", "k">>}

DynamicPatterns ==
    {<<"t", "i", "m", "e", "s", "t", "a", "m", "p">>, <<"t", "i", "m", "e">>, <<"d", "a", "t", "e">>, <<"s", "e", "s", "s", "i", "o", "n">>, <<"c", "s", "r", "f">>, <<"t", "o", "k", "e", "n">>, <<"n", "o", "n", "c", "e">>,
     <<"u", "p", "d", "a", "t", "e", "d">>, <<"m", "o", "d", "i", "f", "i", "e", "d">>}

HasDynamicPattern(attr) ==
    /\ attr # <<>>
    /\ \E p \in DynamicPatterns : Contains(LowerStr(attr), p)

\* The document normalize_content keeps of a parsed document.
NormalizeDoc(doc) ==
    SelectSeq(doc, LAMBDA e :
        /\ e.tag \notin ScriptLikeTags
        /\ ~HasDynamicPattern(e.class)
        /\ ~HasDynamicPattern(e.id))

-----------------------------------------------------------------------------
(* get_clean_text                                                          *)

NoisyTags ==
    ScriptLikeTags \cup
    {<<"i", "m", "g">>, <<"f", "i", "g", "u", "r", "e">>, <<"f", "i", "g", "c", "a", "p", "t", "i", "o", "n">>, <<"n", "a", "v">>, <<"h", "e", "a", "d", "e", "r">>, <<"f", "o", "o", "t", "e", "r">>, <<"a", "s", "i", "d", "e">>}

\* The alternatives of the UI-noise pattern, in the order the regex tries them.
NoiseWords ==
    << <<"c", "o", "o", "k", "i", "e">>, <<"p", "r", "i", "v", "a", "c", "y">>, <<"a", "c", "c", "e", "p", "t">>, <<"d", "e", "c", "l", "i", "n", "e">>, <<"l", "o", "g", "i", "n">>, <<"s", "i", "g", "n", " ", "u", "p">>,
       <<"s", "u", "b", "s", "c", "r", "i", "b", "e">>, <<"m", "e", "n", "u">>, <<"s", "e", "a", "r", "c", "h">>, <<"a", "d", "v", "e", "r", "t", "i", "s", "e", "m", "e", "n", "t">>, <<"a", "d">> >>

NoiseMatchesAt(s, i, k) ==
    LET w == NoiseWords[k]
    IN  /\ i + Len(w) - 1 <= Len(s)
        /\ ToLower(s[i]) = w[1]
        /\ LowerStr(SubSeq(s, i, i + Len(w) - 1)) = w

\* The length of the match of the UI-noise pattern at position i, 0 if none.
NoiseMatchLen(s, i) ==
    LET ks == {k \in DOMAIN NoiseWords : NoiseMatchesAt(s, i, k)}
    IN  IF ks = {} THEN 0 ELSE Len(NoiseWords[SetMin(ks)])

RECURSIVE RemoveFrom(_, _, _)
RemoveFrom(s, from, cands) ==
    LET next == {j \in cands : j >= from}
    IN  IF next = {} THEN SubSeq(s, from, Len(s))
        ELSE LET j == SetMin(next)
             IN  SubSeq(s, from, j - 1) \o RemoveFrom(s, j + NoiseMatchLen(s, j), cands)

\* re.sub(r'(cookie|...|advertisement|ad)', '', s, flags=re.I): the leftmost
\* matches, not overlapping, are deleted.
RemoveNoise(s) ==
    RemoveFrom(s, 1, {i \in DOMAIN s : NoiseMatchLen(s, i) > 0})

NoVisibleText == <<"N", "o", " ", "v", "i", "s", "i", "b", "l", "e", " ", "t", "e", "x", "t">>

\* The stripped, non-empty text nodes that get_clean_text collects.
VisibleTexts(doc) ==
    LET kept == SelectSeq(doc, LAMBDA e :
                    /\ e.tag \notin NoisyTags
                    /\ e.tag \notin {<<"s", "c", "r", "i", "p", "t">>, <<"s", "t", "y", "l", "e">>}
                    /\ e.tag # CommentTag
                    /\ e.tag \notin VoidTags)
    IN  SelectSeq([i \in DOMAIN kept |-> Strip(kept[i].text)], LAMBDA t : t # <<>>)

\* full_text before the UI-noise pattern is applied.
JoinedText(doc) == Strip(CollapseSpaces(Join(VisibleTexts(doc), <<" ">>)))

CleanTextOfDoc(doc) ==
    LET full_text == Strip(CollapseSpaces(RemoveNoise(JoinedText(doc))))
    IN  IF full_text = <<>> THEN NoVisibleText ELSE full_text

-----------------------------------------------------------------------------
(* The pages the monitored sites serve, and the inputs of the pure          *)
(* functions.                                                               *)

\* The largest number of nodes of a document handed to get_clean_text alone.
MaxNodes == 2

\* The largest number of pieces old_text is made of.
MaxOldPieces == 2

\* The number of run_check cycles run_continuous makes.
MaxCycles == 4

BaseText == <<"W", "e", "l", "c", "o", "m", "e", " ", "t", "o", " ", "o", "u", "r", " ", "s", "i", "t", "e", ".", " ", "C", "o", "n", "t", "a", "c", "t", " ", "u", "s", " ", "f", "o", "r", " ", "d", "e", "t", "a", "i", "l", "s", ".">>

Office == <<" ", "W", "e", " ", "h", "a", "v", "e", " ", "j", "u", "s", "t", " ", "o", "p", "e", "n", "e", "d", " ", "a", "n", " ", "o", "f", "f", "i", "c", "e", " ", "i", "n", " ", "L", "e", "e", "d", "s", ".">>

MoreSoon == <<" ", "M", "o", "r", "e", " ", "t", "o", " ", "c", "o", "m", "e", ".">>

ChangeLog == <<" ", "R", "e", "a", "d", " ", "t", "h", "e", " ", "l", "i", "s", "t", " ", "o", "f", " ", "c", "h", "a", "n", "g", "e", "s", " ", "w", "e", " ", "m", "a", "d", "e", " ", "t", "o", " ", "t", "h", "e", " ", "r", "o", "a", "d", "m", "a", "p", ".">>

Launch == <<" ", "W", "e", " ", "j", "u", "s", "t", " ", "l", "a", "u", "n", "c", "h", "e", "d", " ", "a", " ", "n", "e", "w", " ", "p", "r", "o", "d", "u", "c", "t", " ", "l", "i", "n", "e", " ", "t", "o", "d", "a", "y", " ", "w", "i", "t", "h", " ", "e", "x", "c", "i", "t", "i", "n", "g", " ", "f", "e", "a", "t", "u", "r", "e", "s", ".">>

Nav == Node(<<"n", "a", "v">>, <<>>, <<>>, <<"H", "o", "m", "e", " ", "L", "o", "g", "i", "n">>)

Para(text) == Node(<<"p">>, <<>>, <<>>, text)

\* What a site may answer: each page is the markup of a document.  The sixth
\* differs from the first only in what normalize_content removes.
Pages ==
    << <<Nav, Para(BaseText)>>,
       <<Nav, Para(<<"W", "e", "l", "c", "o", "m", "e", " ", "t", "o", " ", "o", "u", "r", " ", "s", "i", "t", "e", ".", " ", "C", "o", "n", "t", "a", "c", "t", " ", "u", "s", " ", "f", "o", "r", " ", "d", "e", "t", "a", "i", "l", "s", " ", "n", "o", "w", ".">>)>>,
       <<Nav, Para(BaseText \o Office)>>,
       <<Nav, Para(BaseText \o Office \o MoreSoon)>>,
       <<Nav, Para(BaseText \o Office \o MoreSoon \o ChangeLog)>>,
       <<Node(<<"s", "c", "r", "i", "p", "t">>, <<>>, <<>>, <<"v", "a", "r", " ", "t", "=", "1", ";">>), Nav, Para(BaseText),
         Node(<<"d", "i", "v">>, <<>>, <<"T", "i", "m", "e", "s", "t", "a", "m", "p">>, <<"1", "2", ":", "0", "0">>)>>,
       <<Nav, Para(<<"W", "e", "l", "c", "o", "m", "e", " ", "t", "o", " ", "o", "u", "r", " ", "s", "i", "t", "e", ".">> \o Launch \o <<" ", "C", "o", "n", "t", "a", "c", "t", " ", "u", "s", " ", "f", "o", "r", " ", "d", "e", "t", "a", "i", "l", "s", ".">>)>> >>

\* The nodes of the documents handed to get_clean_text alone.
CleanNodes ==
    << Para(<<"R", "e", "a", "d", "i", "n", "g", " ", " ", "t", "h", "e", "\n", " ", "r", "o", "a", "d", "m", "a", "p">>),
       Para(<<"A", "c", "c", "e", "p", "t", " ", "c", "o", "o", "k", "i", "e">>),
       Node(<<"d", "i", "v">>, <<"b", "o", "x">>, <<"m", "a", "i", "n">>, <<" ", "S", "i", "g", "n", " ", "u", "p", " ", "f", "o", "r", " ", "a", "d", " ", "n", "e", "w", "s", " ">>),
       Node(<<"n", "a", "v">>, <<>>, <<>>, <<"M", "e", "n", "u">>),
       Node(CommentTag, <<>>, <<>>, <<"d", "r", "a", "f", "t">>),
       Node(<<"i", "m", "g">>, <<"l", "o", "g", "o">>, <<>>, <<>>),
       Node(<<"h", "1">>, <<>>, <<>>, <<"A", "d", "v", "e", "r", "t", "i", "s", "e", "m", "e", "n", "t">>) >>

SeqsUpTo(S, n) == UNION {[1..k -> S] : k \in 0..n}

CleanDocs == {[i \in DOMAIN ix |-> CleanNodes[ix[i]]] : ix \in SeqsUpTo(DOMAIN CleanNodes, MaxNodes)}

\* The selectors of the model: a tag name ("p") or None.
SelectFirst(doc, selector) ==
    LET hits == {i \in DOMAIN doc : doc[i].tag = selector}
    IN  IF hits = {} THEN NoDict ELSE doc[SetMin(hits)]

PageDocs == Range(Pages)

Selectors == {None, <<"p">>}

\* Every document of the model: the pages, what normalisation and selection
\* make of them, and the documents handed to get_clean_text alone.
Documents ==
    LET normal == PageDocs \cup {NormalizeDoc(d) : d \in PageDocs}
    IN  normal
        \cup {<<SelectFirst(d, <<"p">>)>> : d \in {d \in normal : SelectFirst(d, <<"p">>) # NoDict}}
        \cup CleanDocs

Rendered == [d \in Documents |-> RenderDoc(d)]

\* BeautifulSoup(content, 'html.parser'): the document whose markup content is.
Parse(content) == CHOOSE d \in Documents : Rendered[d] = content

-----------------------------------------------------------------------------
(* The pipeline of one fetch.                                              *)

\* config['ignore_dynamic_content']
ignore_dynamic_content == TRUE

normalize_content(content) ==
    IF ~ignore_dynamic_content THEN content
    ELSE RenderDoc(NormalizeDoc(Parse(content)))

get_clean_text(content) == CleanTextOfDoc(Parse(content))

\* The result of requests.get failing or raise_for_status raising.
FetchFailed == <<"FetchFailed">>

\* The responses a fetch may get.
Responses == {RenderDoc(d) : d \in PageDocs}

\* NormalizeAndSelect without the call of normalize_content.
SelectWithoutNormalizing(text, selector) ==
    IF selector = None THEN text
    ELSE LET selected == SelectFirst(Parse(text), selector)
         IN  IF selected = NoDict THEN text ELSE RenderNode(selected)

\* What fetch_website_content makes of the text of a response: it is
\* normalised and, with a selector that matches, cut to the first match.
NormalizeAndSelect(text, selector) ==
    LET content == normalize_content(text)
    IN  IF selector = None THEN content
        ELSE LET selected == SelectFirst(Parse(content), selector)
             IN  IF selected = NoDict THEN content ELSE RenderNode(selected)

ContentOf == [r \in Responses, s \in Selectors |-> NormalizeAndSelect(r, s)]

fetch_website_content(response, selector) ==
    IF response = FetchFailed THEN None ELSE ContentOf[response, selector]

RECURSIVE DigestRange(_, _, _)
\* <<digest of s[lo..hi], weight of a text of that length>>
DigestRange(s, lo, hi) ==
    IF lo > hi THEN <<0, 1>>
    ELSE IF lo = hi THEN <<Ord(s[lo]) % 46337, 257>>
    ELSE LET mid == (lo + hi) \div 2
             l == DigestRange(s, lo, mid)
             r == DigestRange(s, mid + 1, hi)
         IN  <<(l[1] * r[2] + r[1]) % 46337, (l[2] * r[2]) % 46337>>

\* hashlib.sha256(content.encode('utf-8')).hexdigest(), as a digest of the
\* bytes of content that tells the contents of the model apart.
calculate_hash(content) == DigestRange(content, 1, Len(content))[1]

\* The length of the preview.
SnippetLen == 1000

get_content_snippet(content) ==
    LET clean == get_clean_text(content)
    IN  Prefix(clean, SnippetLen) \o (IF Len(clean) > SnippetLen THEN Ellipsis ELSE <<>>)

\* The contents check_website may see, with what the pipeline makes of each.
Contents == {ContentOf[r, s] : r \in Responses, s \in Selectors}

HashOf == [c \in Contents |-> calculate_hash(c)]

CleanTextOf == [c \in Contents |-> get_clean_text(c)]

SnippetOf == [c \in Contents |-> get_content_snippet(c)]

-----------------------------------------------------------------------------
(* check_website                                                           *)

\* config['websites']
Sites ==
    << [url |-> "https://a.example", name |-> "A", selector |-> None],
       [url |-> "https://b.example", name |-> "B", selector |-> <<"p">>] >>

Urls == {Sites[i].url : i \in DOMAIN Sites}

\* The pages each site serves over time.
Served(url) ==
    IF url = Sites[1].url THEN {RenderDoc(Pages[i]) : i \in 1..6}
    ELSE {RenderDoc(Pages[i]) : i \in {1, 7}}

\* config.get('min_change_chars', 50)
min_change_chars == 50

\* config['notifications']['email']['enabled']
email_enabled == TRUE

Abs(n) == IF n < 0 THEN -n ELSE n

\* The dict stored for a url.
Snapshot(content, now) ==
    [hash |-> HashOf[content], last_check |-> now,
     content_snippet |-> SnippetOf[content], full_content |-> content,
     clean_text |-> CleanTextOf[content]]

\* self.website_data[url] = {...}
StoreSnapshot(data, url, snapshot) ==
    [u \in DOMAIN data \cup {url} |-> IF u = url THEN snapshot ELSE data[u]]

\* fetch_failed forgetting the store.
fetch_failed_clears_store(data) == [result |-> NoDict, data |-> <<>>]

\* content is None: nothing is touched.
fetch_failed(data) == [result |-> NoDict, data |-> data]

\* no_changes without the refresh of last_check.
no_changes_keeps_time(data, url, now) == [result |-> NoDict, data |-> data]

\* content_hash == prev['hash']: only last_check is refreshed.
no_changes(data, url, now) ==
    [result |-> NoDict, data |-> [data EXCEPT ![url].last_check = now]]

size_diff(content, prev) == Abs(Len(content) - Len(prev.full_content))

\* is_tiny with "<=" for "<".
is_tiny_inclusive(content, prev) == size_diff(content, prev) <= min_change_chars

\* if size_diff < min_change
is_tiny(content, prev) == size_diff(content, prev) < min_change_chars

\* tiny_change returning before the assignment that ends the function.
tiny_change_keeps_snapshot(data, url, snapshot) ==
    [result |-> NoDict, data |-> data]

\* size_diff < min_change: "Tiny change ignored", then the code goes on to the
\* assignment that ends the function.
tiny_change(data, url, snapshot) ==
    [result |-> NoDict, data |-> StoreSnapshot(data, url, snapshot)]

change_info(website, prev, content, now) ==
    [url |-> website.url, name |-> website.name,
     previous_check |-> prev.last_check, current_check |-> now,
     previous_full_content |-> prev.clean_text,
     current_full_content |-> CleanTextOf[content],
     current_snippet |-> SnippetOf[content]]

\* new_content without the assignment to self.website_data[url].
new_content_keeps_snapshot(data, website, content, now) ==
    [result |-> change_info(website, data[website.url], content, now),
     data |-> data]

\* "New content detected!"
new_content(data, website, content, now) ==
    [result |-> change_info(website, data[website.url], content, now),
     data |-> StoreSnapshot(data, website.url, Snapshot(content, now))]

\* "First check - baseline saved"
first_check(data, url, snapshot) ==
    [result |-> NoDict, data |-> StoreSnapshot(data, url, snapshot)]

\* The body of check_website after the fetch, on the store `data`, when
\* datetime.now() reads `now`: the value returned and the store it leaves.
check_content(data, website, content, now) ==
    IF content = None THEN fetch_failed(data)
    ELSE IF website.url \in DOMAIN data
    THEN IF HashOf[content] = data[website.url].hash
         THEN no_changes(data, website.url, now)
         ELSE IF is_tiny(content, data[website.url])
         THEN tiny_change(data, website.url, Snapshot(content, now))
         ELSE new_content(data, website, content, now)
    ELSE first_check(data, website.url, Snapshot(content, now))

\* check_website(website) when the site answers `response`.
check_website(data, website, response, now) ==
    check_content(data, website,
                  fetch_website_content(response, website.selector), now)

-----------------------------------------------------------------------------
(* send_notifications and send_email                                       *)

\* The summary get_change_description gives, with the number it quotes.
get_change_description(old_len, new_len) ==
    LET diff == new_len - old_len
    IN  IF diff > 500 THEN [summary |-> "Significant new content added", chars |-> diff]
        ELSE IF diff > 0 THEN [summary |-> "New content added", chars |-> diff]
        ELSE [summary |-> "New or modified content detected", chars |-> 0]

\* What send_notifications hands to send_email for a change.
Message(c) ==
    [url |-> c.url,
     subject |-> c.name,
     desc |-> get_change_description(Len(c.previous_full_content),
                                     Len(c.current_full_content)),
     differences |-> find_content_differences(c.previous_full_content,
                                              c.current_full_content),
     preview |-> c.current_snippet]

\* send_email without its try/except.
send_email_propagates(delivered) == ~delivered

\* Whether a failure of the SMTP session leaves send_email as an exception:
\* the try/except of send_email prints it and returns.
send_email_raises(delivered) == FALSE

-----------------------------------------------------------------------------
(* run_continuous and run_check                                            *)

NoCall == NoDict

IdleOrchestrator ==
    /\ website_data = <<>>
    /\ data_file = <<>>
    /\ clock = 0
    /\ pc = "sleep"
    /\ idx = 1
    /\ changes = <<>>
    /\ nidx = 1
    /\ outbox = <<>>
    /\ last_call = NoCall
    /\ last_outcome = [u \in Urls |-> None]
    /\ last_fetched = [u \in Urls |-> None]
    /\ first_content = [u \in Urls |-> None]
    /\ small_steps = [u \in Urls |-> TRUE]
    /\ had_event = [u \in Urls |-> FALSE]

\* __init__: no website_data.json yet; the pure functions are not in use.
Init ==
    /\ IdleOrchestrator
    /\ applied = FALSE
    /\ old_text = <<>>
    /\ new_sentence = <<>>
    /\ diffs = <<>>
    /\ markup = <<>>
    /\ clean_out = <<>>

\* run_check is entered: changes = [].
StartCheck ==
    /\ pc = "sleep"
    /\ clock < MaxCycles * Len(Sites)
    /\ pc' = "check"
    /\ idx' = 1
    /\ changes' = <<>>
    /\ nidx' = 1
    /\ outbox' = <<>>
    /\ UNCHANGED <<website_data, data_file, clock, last_call, last_outcome,
                   last_fetched, first_content,
                   small_steps, had_event>>
    /\ UNCHANGED pure_vars

\* What a call of check_website leaves: the store, the change appended to
\* changes, and the record of the call.  Time passes during the fetch, so
\* datetime.now() reads a later time in every call.
AfterCall(site, response, content, r) ==
    /\ website_data' = r.data
    /\ changes' = IF r.result = NoDict THEN changes ELSE Append(changes, r.result)
    /\ clock' = clock + 1
    /\ last_call' = [url |-> site.url, selector |-> site.selector,
                     response |-> response, content |-> content,
                     before |-> last_outcome[site.url],
                     prior |-> IF site.url \in DOMAIN website_data
                               THEN website_data[site.url] ELSE NoDict,
                     result |-> r.result]
    /\ last_outcome' = [last_outcome EXCEPT ![site.url] = content]
    /\ last_fetched' =
           IF content # None THEN [last_fetched EXCEPT ![site.url] = content]
           ELSE last_fetched
    /\ first_content' =
           IF content # None /\ first_content[site.url] = None
           THEN [first_content EXCEPT ![site.url] = content]
           ELSE first_content
    /\ small_steps' =
           IF /\ content # None
              /\ last_fetched[site.url] # None
              /\ Abs(Len(content) - Len(last_fetched[site.url])) >= min_change_chars
           THEN [small_steps EXCEPT ![site.url] = FALSE]
           ELSE small_steps
    /\ had_event' =
           IF r.result # NoDict THEN [had_event EXCEPT ![site.url] = TRUE]
           ELSE had_event

\* One turn of `for site in self.config['websites']`: check_website(site),
\* and the change it returns is appended to changes.
CheckSite ==
    /\ pc = "check"
    /\ idx <= Len(Sites)
    /\ \E response \in Served(Sites[idx].url) \cup {FetchFailed} :
           AfterCall(Sites[idx], response,
                     fetch_website_content(response, Sites[idx].selector),
                     check_website(website_data, Sites[idx], response, clock + 1))
    /\ idx' = idx + 1
    /\ UNCHANGED <<data_file, pc, nidx, outbox>>
    /\ UNCHANGED pure_vars

\* save_website_data(), then the branch on `if changes`.
SaveData ==
    /\ pc = "check"
    /\ idx > Len(Sites)
    /\ data_file' = website_data
    /\ pc' = IF changes # <<>> THEN "notify" ELSE "sleep"
    /\ UNCHANGED <<website_data, clock, idx, changes, nidx, outbox, last_call,
                   last_outcome, last_fetched, first_content, small_steps, had_event>>
    /\ UNCHANGED pure_vars

\* One turn of `for c in changes`: send_notifications(c), whose send_email
\* is delivered or fails.
Notify ==
    /\ pc = "notify"
    /\ nidx <= Len(changes)
    /\ \E delivered \in BOOLEAN :
        /\ outbox' = IF email_enabled
                     THEN Append(outbox, [message |-> Message(changes[nidx]),
                                          delivered |-> delivered])
                     ELSE outbox
        /\ pc' = IF email_enabled /\ send_email_raises(delivered) THEN "raised"
                 ELSE IF nidx = Len(changes) THEN "sleep"
                 ELSE "notify"
    /\ nidx' = nidx + 1
    /\ UNCHANGED <<website_data, data_file, clock, idx, changes, last_call,
                   last_outcome, last_fetched, first_content, small_steps, had_event>>
    /\ UNCHANGED pure_vars

Next == StartCheck \/ CheckSite \/ SaveData \/ Notify

Spec == Init /\ [][Next]_vars

-----------------------------------------------------------------------------
(* find_content_differences on its own: old_text and the sentence appended *)
(* to it are drawn from the texts below.                                   *)

\* A sentence of n characters.
LongSentence(n) == <<"O", "u", "r", " ", "a", "r", "c", "h", "i", "v", "e", " ">> \o [i \in 1..(n - 13) |-> "x"] \o <<".">>

NewSentences ==
    { <<"W", "e", " ", "l", "a", "u", "n", "c", "h", "e", "d", " ", "a", " ", "n", "e", "w", " ", "p", "r", "o", "d", "u", "c", "t", " ", "l", "i", "n", "e", ".">>,
      <<"W", "e", " ", "l", "a", "u", "n", "c", "h", "e", "d", " ", "n", "e", "w", " ", "p", "r", "o", "d", "u", "c", "t", " ", "l", "i", "n", "e", "s", ".">>,
      <<"I", "s", " ", "i", "t", " ", "v", "1", ".", "2", " ", "y", "e", "t", "?", " ", "n", "o", ",", " ", "w", "a", "i", "t", " ", "s", "o", "m", "e", " ", "m", "o", "r", "e", ".">>,
      LongSentence(MaxShownLen),
      LongSentence(MaxShownLen + 1) }

OldPieces ==
    << <<"W", "e", "l", "c", "o", "m", "e", " ", "t", "o", " ", "o", "u", "r", " ", "s", "i", "t", "e", ".">>,
       <<"C", "o", "n", "t", "a", "c", "t", " ", "u", "s", " ", "f", "o", "r", " ", "d", "e", "t", "a", "i", "l", "s", " ", "a", "b", "o", "u", "t", " ", "o", "u", "r", " ", "s", "e", "r", "v", "i", "c", "e", "s", " ", "t", "o", "d", "a", "y", ".">>,
       <<"L", "a", "t", "e", "s", "t", " ", "n", "e", "w", "s">>,
       <<"W", "e", " ", "l", "a", "u", "n", "c", "h", "e", "d", " ", "a", " ", "n", "e", "w", " ", "p", "r", "o", "d", "u", "c", "t", " ", "l", "i", "n", "e", ".">>,
       <<"A", "l", "l", " ", "d", "o", "n", "e", " ", "h", "e", "r", "e", "!", "\n">>,
       <<"O", "p", "e", "n", "i", "n", "g", " ", "h", "o", "u", "r", "s", " ", "a", "r", "e", " ", "l", "i", "s", "t", "e", "d", " ", "o", "n", " ", "t", "h", "e", " ", "l", "a", "s", "t", " ", "p", "a", "g", "e">> >>

OldTexts ==
    {Join([i \in DOMAIN ix |-> OldPieces[ix[i]]], <<" ">>) :
        ix \in SeqsUpTo(DOMAIN OldPieces, MaxOldPieces)}

InitDiff ==
    /\ IdleOrchestrator
    /\ applied = FALSE
    /\ old_text \in OldTexts
    /\ new_sentence \in NewSentences
    /\ diffs = <<>>
    /\ markup = <<>>
    /\ clean_out = <<>>

\* find_content_differences(old_text, old_text + " " + new_sentence)
FindDifferences ==
    /\ ~applied
    /\ applied' = TRUE
    /\ diffs' = find_content_differences(old_text, old_text \o <<" ">> \o new_sentence)
    /\ UNCHANGED <<old_text, new_sentence>>
    /\ UNCHANGED <<orchestrator_vars, markup, clean_out>>

NextDiff == FindDifferences

SpecDiff == InitDiff /\ [][NextDiff]_vars

-----------------------------------------------------------------------------
(* get_clean_text on its own: the markup is drawn from CleanDocs.          *)

InitClean ==
    /\ IdleOrchestrator
    /\ applied = FALSE
    /\ old_text = <<>>
    /\ new_sentence = <<>>
    /\ diffs = <<>>
    /\ markup \in {Rendered[d] : d \in CleanDocs}
    /\ clean_out = <<>>

\* get_clean_text(markup)
ExtractText ==
    /\ ~applied
    /\ applied' = TRUE
    /\ clean_out' = get_clean_text(markup)
    /\ UNCHANGED markup
    /\ UNCHANGED <<orchestrator_vars, old_text, new_sentence, diffs>>

NextClean == ExtractText

SpecClean == InitClean /\ [][NextClean]_vars

-----------------------------------------------------------------------------
(* Properties of check_website.  last_call describes the latest call: the  *)
(* store is only written by check_website, so between two calls            *)
(* website_data is what that call left.                                    *)

\* normalize_content of each response, and its first <p> element.
NormalOf == [r \in Responses |-> RenderDoc(NormalizeDoc(Parse(r)))]

FirstMatchOf == [r \in Responses |-> RenderNode(SelectFirst(Parse(NormalOf[r]), <<"p">>))]

Called == last_call # NoDict

\* The latest call fetched its content.
Fetched == Called /\ last_call.content # None

\* The latest call found a Snapshot of its target.
HadSnapshot == Fetched /\ last_call.prior # NoDict

\* The latest call fetched content whose fingerprint is not the stored one.
FingerprintDiffers ==
    HadSnapshot /\ HashOf[last_call.content] # last_call.prior.hash

LengthDelta == Abs(Len(last_call.content) - Len(last_call.prior.full_content))

\* The Snapshot the latest call's target has now.
Current == website_data[last_call.url]

\* The Snapshot holds what the pipeline computes from `content`.
Reflects(snapshot, content) ==
    /\ snapshot.hash = HashOf[content]
    /\ snapshot.full_content = content
    /\ snapshot.clean_text = CleanTextOf[content]

BelowThreshold == FingerprintDiffers /\ LengthDelta < min_change_chars

\* C1 as stated: when the fetched content's fingerprint differs from the
\* stored one and the content length differs by less than min_change_chars,
\* check_website returns no ChangeEvent and every field of the Snapshot is
\* what it was before the check.
C1_SmallChangeLeavesSnapshot ==
    BelowThreshold =>
        /\ last_call.result = NoDict
        /\ Current = last_call.prior

\* C1 as amended: in that case check_website returns no ChangeEvent and
\* overwrites the Snapshot with the fingerprint, content, extracted text and
\* preview of the fetched content and the time of the check.
C1_SmallChangeOverwritesSnapshot ==
    BelowThreshold =>
        /\ last_call.result = NoDict
        /\ Reflects(Current, last_call.content)
        /\ Current.content_snippet = SnippetOf[last_call.content]
        /\ Current.last_check = clock
        /\ Current # last_call.prior

C1_Witness == BelowThreshold /\ LengthDelta > 0

\* C2: for every target with at least one successful fetch, the Snapshot
\* holds the fingerprint, content and extracted text of the content of the
\* most recent successful fetch, whatever the outcomes of the checks were.
C2_SnapshotReflectsLatestFetch ==
    \A u \in Urls :
        last_fetched[u] # None =>
            /\ u \in DOMAIN website_data
            /\ website_data[u].hash = HashOf[last_fetched[u]]
            /\ website_data[u].full_content = last_fetched[u]
            /\ website_data[u].clean_text = CleanTextOf[last_fetched[u]]

\* A failed fetch follows a reported change of the same target.
C2_Witness ==
    /\ Called
    /\ last_call.content = None
    /\ had_event[last_call.url]
    /\ last_fetched[last_call.url] # None

\* The latest call was made in the run_check cycle that is still in its loop.
InThisCycle == pc = "check" /\ idx > 1

AtOrAboveThreshold == FingerprintDiffers /\ LengthDelta >= min_change_chars

\* C3: when the fingerprint differs and the length differs by at least
\* min_change_chars, check_website returns a ChangeEvent for the target whose
\* previous text is the extracted text stored before the check and whose
\* current text is the extracted text of the fetched content, the Snapshot
\* holds the new fingerprint, content and extracted text, and run_check
\* has that one ChangeEvent for the target.
C3_LargeChangeIsReported ==
    AtOrAboveThreshold =>
        /\ last_call.result # NoDict
        /\ last_call.result.url = last_call.url
        /\ last_call.result.previous_full_content = last_call.prior.clean_text
        /\ last_call.result.current_full_content = CleanTextOf[last_call.content]
        /\ Reflects(Current, last_call.content)
        /\ InThisCycle =>
               /\ changes # <<>>
               /\ changes[Len(changes)] = last_call.result
               /\ Cardinality({i \in DOMAIN changes :
                      changes[i].url = last_call.url}) = 1

\* The length differs by exactly min_change_chars.
C3_Witness == AtOrAboveThreshold /\ LengthDelta = min_change_chars

\* C4: the first successful check of a target returns no ChangeEvent and
\* creates a Snapshot whose fingerprint is that of the normalised fetched
\* content (of the selected element, for a target with a selector).
C4_FirstCheckSavesBaseline ==
    (Fetched /\ last_call.prior = NoDict) =>
        /\ last_call.result = NoDict
        /\ last_call.url \in DOMAIN website_data
        /\ Current.hash = calculate_hash(last_call.content)
        /\ last_call.selector = None =>
               Current.hash = calculate_hash(NormalOf[last_call.response])
        /\ last_call.selector # None =>
               Current.hash = calculate_hash(FirstMatchOf[last_call.response])

\* The baseline is taken from a page that normalisation changes.
C4_Witness ==
    /\ Fetched
    /\ last_call.prior = NoDict
    /\ last_call.selector = None
    /\ NormalOf[last_call.response] # last_call.response

SameAsBefore == Fetched /\ last_call.before = last_call.content

\* C5: when a successful check fetches the content the preceding check of
\* the target fetched, it returns no ChangeEvent and changes only
\* last_check, which advances.
C5_RepeatedContentOnlyRefreshesTime ==
    SameAsBefore =>
        /\ last_call.result = NoDict
        /\ last_call.prior # NoDict
        /\ Current = [last_call.prior EXCEPT !.last_check = clock]
        /\ Current.last_check > last_call.prior.last_check

\* The content is fetched again after a check that reported it.
C5_Witness == SameAsBefore /\ had_event[last_call.url]

\* A step that is a call of check_website.
CheckStep == pc = "check" /\ idx' = idx + 1

\* C6: a check whose fetch fails returns no ChangeEvent and leaves the whole
\* store as it was, for its target and every other.
C6_FailedFetchLeavesStore ==
    [][(CheckStep /\ last_call'.content = None) =>
           /\ last_call'.result = NoDict
           /\ website_data' = website_data
           /\ changes' = changes]_vars

\* A fetch fails for a target that has a Snapshot, as has another target.
C6_Witness ==
    /\ Called
    /\ last_call.content = None
    /\ last_call.prior # NoDict
    /\ DOMAIN website_data = Urls

\* C7: in a run_check cycle the store is written to the data file before
\* the notifications and whatever their outcome, and send_email is tried
\* for every ChangeEvent of the cycle, in order, also after a failure.
C7_DeliveryFailureIsIsolated ==
    /\ pc # "raised"
    /\ pc \in {"notify", "sleep"} => data_file = website_data
    /\ pc = "notify" => Len(outbox) = nidx - 1
    /\ (pc = "sleep" /\ email_enabled) =>
           /\ Len(outbox) = Len(changes)
           /\ \A i \in DOMAIN changes : outbox[i].message.url = changes[i].url

\* A cycle with two ChangeEvents ends after the first delivery failed.
C7_Witness ==
    /\ pc = "sleep"
    /\ Len(changes) = 2
    /\ Len(outbox) = 2
    /\ ~outbox[1].delivered
    /\ data_file = website_data

\* C8: as long as every fetched content differs in length from the content
\* fetched before it by less than min_change_chars, no check of the target
\* returns a ChangeEvent.
C8_SmallStepsNeverReported ==
    \A u \in Urls : small_steps[u] => ~had_event[u]

\* The content has drifted from the baseline by twice min_change_chars.
C8_Witness ==
    \E u \in Urls :
        /\ small_steps[u]
        /\ last_fetched[u] # None
        /\ Abs(Len(last_fetched[u]) - Len(first_content[u])) >= 2 * min_change_chars

-----------------------------------------------------------------------------
(* Properties of find_content_differences.                                 *)

\* Starts with an upper-case letter, ends with a terminal mark, and holds no
\* place where split_sentences splits.
SentenceShaped(s) ==
    /\ s # <<>>
    /\ s[1] \in UpperSet
    /\ s[Len(s)] \in Terminal
    /\ SplitStarts(s) = {}

\* Added: "<s>", with s cut to 350 characters and "..." when it is longer.
ExpectedEntry(s) ==
    <<"A", "d", "d", "e", "d", ":", " ", "\"">> \o (IF Len(s) > 350 THEN SubSeq(s, 1, 350) \o <<".", ".", ".">> ELSE s) \o <<"\"">>

Appended == applied /\ SentenceShaped(new_sentence) /\ Len(new_sentence) > 30

\* C9 as stated: for every old and every sentence-shaped new_sentence longer
\* than 30 characters, find_content_differences(old, old + " " + new_sentence)
\* is the one entry Added: "<new_sentence>".
C9_AppendedSentenceIsReported ==
    Appended => diffs = <<ExpectedEntry(new_sentence)>>

\* old is empty or ends, before any trailing whitespace, with a terminal mark.
EndsSentence(old) ==
    LET t == Strip(old) IN t = <<>> \/ t[Len(t)] \in Terminal

\* C9 as amended: that holds when old is empty or ends with a terminal mark
\* and new_sentence is not a sentence of old longer than 30 characters.
C9_AppendedAfterFullStopIsReported ==
    (/\ Appended
     /\ EndsSentence(old_text)
     /\ new_sentence \notin Range(split_sentences(old_text)))
        => diffs = <<ExpectedEntry(new_sentence)>>

\* A sentence that has to be cut is appended to a text of full sentences.
C9_Witness ==
    /\ Appended
    /\ EndsSentence(old_text)
    /\ old_text # <<>>
    /\ new_sentence \notin Range(split_sentences(old_text))
    /\ Len(new_sentence) > 350

-----------------------------------------------------------------------------
(* Properties of get_clean_text.                                           *)

IsLetter(c) == c \in UpperSet \/ c \in Range(LowerCase)

\* The words of a text: its maximal runs without whitespace.
Words(s) ==
    {SubSeq(s, i, j) : <<i, j>> \in
        {p \in (DOMAIN s) \X (DOMAIN s) :
            /\ p[1] <= p[2]
            /\ \A k \in p[1]..p[2] : ~IsSpace(s[k])
            /\ p[1] = 1 \/ IsSpace(s[p[1] - 1])
            /\ p[2] = Len(s) \/ IsSpace(s[p[2] + 1])}}

\* A word of letters that holds a UI-chrome token and is not one itself.
HoldsToken(w) ==
    /\ \A i \in DOMAIN w : IsLetter(w[i])
    /\ LowerStr(w) \notin Range(NoiseWords)
    /\ \E k \in DOMAIN NoiseWords : Contains(LowerStr(w), NoiseWords[k])

\* C10: a word that only contains a UI-chrome token is in the extracted text
\* as it is in the page.
C10_TokensRemovedOnlyAsWords ==
    applied =>
        \A w \in Words(JoinedText(Parse(markup))) :
            HoldsToken(w) => w \in Words(clean_out)

=============================================================================
